---- MODULE Spec2Model ----
(***************************************************************************)
(* A model of nn_utils.py: a single-hidden-layer network trained by        *)
(* per-sample stochastic gradient steps (nn_train) and evaluated on a test *)
(* set (nn_test).                                                          *)
(*                                                                         *)
(* Floating-point numbers are modelled as a scaled-down IEEE format: a     *)
(* finite value v is the integer round(v * Scale), finite values lie in    *)
(* -MaxFloat..MaxFloat, and the three special values +inf, -inf and nan    *)
(* are kept, with IEEE's rules for them (overflow gives inf, inf/inf,      *)
(* 0/0, inf-inf and 0*inf give nan, nan propagates).  Arrays are functions *)
(* over 0..n-1, so that indices are Python's.                              *)
(*                                                                         *)
(* The arithmetic and the array operations are written as functions, so    *)
(* that an argument is evaluated once, before the function is applied.     *)
(***************************************************************************)
EXTENDS Integers, Sequences, FiniteSets, TLC

\* ------------------------------------------------------------ bounds
\* One unit of the number format is 1/Scale.
Scale == 1000
\* The largest finite number of the format, in units (46.0).
MaxFloat == 46000
\* ------------------------------------------------------------ numbers
PInf == MaxFloat + 1
NInf == 0 - (MaxFloat + 1)
NaN == MaxFloat + 2

IsNaN(a) == a = NaN
IsInf(a) == a = PInf \/ a = NInf
IsFinite(a) == a >= 0 - MaxFloat /\ a <= MaxFloat

Abs[a \in Int] == IF a < 0 THEN 0 - a ELSE a
Sign[a \in Int] == IF a < 0 THEN 0 - 1 ELSE IF a > 0 THEN 1 ELSE 0

\* n / d rounded to the nearest integer, halves away from zero (d > 0).
RoundDiv[n \in Int, d \in Int] == Sign[n] * ((Abs[n] + d \div 2) \div d)

\* A result of finite arithmetic brought into the format: overflow gives inf.
Norm[v \in Int] == IF v > MaxFloat THEN PInf ELSE IF v < 0 - MaxFloat THEN NInf ELSE v

FNeg[a \in Int] == IF IsNaN(a) THEN NaN ELSE 0 - a

FAdd[a \in Int, b \in Int] ==
    IF IsNaN(a) \/ IsNaN(b) THEN NaN
    ELSE IF IsInf(a) /\ IsInf(b) THEN (IF a = b THEN a ELSE NaN)
    ELSE IF IsInf(a) THEN a
    ELSE IF IsInf(b) THEN b
    ELSE Norm[a + b]

FSub[a \in Int, b \in Int] == FAdd[a, FNeg[b]]

FMul[a \in Int, b \in Int] ==
    IF IsNaN(a) \/ IsNaN(b) THEN NaN
    ELSE IF IsInf(a) \/ IsInf(b)
         THEN (IF a = 0 \/ b = 0 THEN NaN
               ELSE IF Sign[a] * Sign[b] > 0 THEN PInf ELSE NInf)
    ELSE Norm[RoundDiv[a * b, Scale]]

FDiv[a \in Int, b \in Int] ==
    IF IsNaN(a) \/ IsNaN(b) THEN NaN
    ELSE IF IsInf(a) /\ IsInf(b) THEN NaN
    ELSE IF IsInf(a) THEN (IF Sign[a] * (IF b < 0 THEN 0 - 1 ELSE 1) > 0 THEN PInf ELSE NInf)
    ELSE IF IsInf(b) THEN 0
    ELSE IF b = 0 THEN (IF a = 0 THEN NaN ELSE IF a > 0 THEN PInf ELSE NInf)
    ELSE Norm[Sign[b] * RoundDiv[a * Scale, Abs[b]]]

\* e^q in units for q = 0, 1, ... and for q = -1, -2, ...; beyond the tables
\* e^q is above MaxFloat, or below half a unit.
EPowPos == <<1000, 2718, 7389, 20086, 54598>>
EPowNeg == <<368, 135, 50, 18, 7, 2, 1, 0>>

\* e^(r/Scale) in units for 0 <= r < Scale: the Taylor polynomial of degree 6.
ExpFrac[r \in Int] ==
    LET t6 == Scale + RoundDiv[r, 6]
        t5 == Scale + RoundDiv[r * t6, 5 * Scale]
        t4 == Scale + RoundDiv[r * t5, 4 * Scale]
        t3 == Scale + RoundDiv[r * t4, 3 * Scale]
        t2 == Scale + RoundDiv[r * t3, 2 * Scale]
    IN  Scale + RoundDiv[r * t2, Scale]

\* np.exp on one number: e^z = e^q * e^r with z = q + r, q whole and 0 <= r < 1.
\* It overflows to inf and underflows to 0.
Exp[z \in Int] ==
    IF IsNaN(z) THEN NaN
    ELSE IF z = PInf THEN PInf
    ELSE IF z = NInf THEN 0
    ELSE LET q == z \div Scale
             r == z - q * Scale
         IN  IF q >= Len(EPowPos) THEN PInf
             ELSE IF 0 - q > Len(EPowNeg) THEN 0
             ELSE Norm[RoundDiv[(IF q >= 0 THEN EPowPos[q + 1] ELSE EPowNeg[0 - q])
                                * ExpFrac[r], Scale]]

\* np.tanh on one number: it saturates at +-1 and never overflows.
Tanh[z \in Int] ==
    IF IsNaN(z) THEN NaN
    ELSE LET e == Exp[0 - 2 * Abs[z]]
             t == FDiv[Scale - e, Scale + e]
         IN  IF z < 0 THEN 0 - t ELSE t

\* ------------------------------------------------------------ arrays
\* The arrays the network computes with: vectors and matrices of numbers, at
\* most four entries long.
Vec(d) == [0..(d - 1) -> Int]
Vectors == Vec(0) \cup Vec(1) \cup Vec(2) \cup Vec(3) \cup Vec(4)
Mat(d) == [0..(d - 1) -> Vectors]
Matrices == Mat(0) \cup Mat(1) \cup Mat(2) \cup Mat(3) \cup Mat(4)

Size(v) == Cardinality(DOMAIN v)

\* The sum of a[0], ..., a[n-1], added left to right.
SumTo[a \in Vectors, n \in Nat] ==
    LET partial[i \in 0..n] == IF i = 0 THEN 0 ELSE FAdd[partial[i - 1], a[i - 1]]
    IN  partial[n]

\* np.dot of a matrix and a vector.
Dot[M \in Matrices, v \in Vectors] ==
    [i \in DOMAIN M |-> SumTo[[j \in DOMAIN v |-> FMul[M[i][j], v[j]]], Size(v)]]

\* np.outer of two vectors.
Outer[a \in Vectors, v \in Vectors] ==
    [i \in DOMAIN a |-> [j \in DOMAIN v |-> FMul[a[i], v[j]]]]

\* np.transpose of a matrix.
Transpose[M \in Matrices] == [j \in DOMAIN M[0] |-> [i \in DOMAIN M |-> M[i][j]]]

\* np.multiply of two vectors.
Multiply[a \in Vectors, v \in Vectors] == [i \in DOMAIN a |-> FMul[a[i], v[i]]]

VecAdd[a \in Vectors, v \in Vectors] == [i \in DOMAIN a |-> FAdd[a[i], v[i]]]
MatAdd[A \in Matrices, B \in Matrices] == [i \in DOMAIN A |-> VecAdd[A[i], B[i]]]
VecScale[c \in Int, v \in Vectors] == [i \in DOMAIN v |-> FMul[c, v[i]]]
MatScale[c \in Int, A \in Matrices] == [i \in DOMAIN A |-> VecScale[c, A[i]]]

\* np.argmax: the first index of the largest entry; a nan counts as the
\* largest (NaN is encoded above +inf, so the integer order gives this).
Argmax[v \in Vectors] ==
    CHOOSE i \in DOMAIN v :
        /\ \A j \in DOMAIN v : v[j] <= v[i]
        /\ \A j \in DOMAIN v : j < i => v[j] < v[i]

\* ------------------------------------------------------------ the network
\* The activation kinds sigma and d_sigma accept.
SupportedKinds == {"tanh", "sigmoid"}

\* sigma(z, func): exit is TRUE where the code calls sys.exit.
sigma[z \in Vectors, func \in STRING] ==
    IF func = "tanh"
    THEN [exit |-> FALSE, val |-> [i \in DOMAIN z |-> Tanh[z[i]]]]
    ELSE IF func = "sigmoid"
    THEN [exit |-> FALSE,
          val |-> [i \in DOMAIN z |-> FDiv[Exp[z[i]], FAdd[Scale, Exp[z[i]]]]]]
    ELSE [exit |-> TRUE, val |-> z]

\* d_sigma(z, func)
d_sigma[z \in Vectors, func \in STRING] ==
    IF func = "tanh"
    THEN [exit |-> FALSE,
          val |-> [i \in DOMAIN z |-> FSub[Scale, FMul[Tanh[z[i]], Tanh[z[i]]]]]]
    ELSE IF func = "sigmoid"
    THEN [exit |-> FALSE,
          val |-> [i \in DOMAIN z |->
                     LET s == FDiv[Exp[z[i]], FAdd[Scale, Exp[z[i]]]]
                     IN  FMul[s, FSub[Scale, s]]]]
    ELSE [exit |-> TRUE, val |-> z]

\* softmax_function(z)
softmax_function[z \in Vectors] ==
    LET e == [i \in DOMAIN z |-> Exp[z[i]]]
        s == SumTo[e, Size(z)]
    IN  [i \in DOMAIN z |-> FDiv[e[i], s]]

\* forward(x, model, func): (Z, H, f), or exit where sigma exits.
forward(x, model, func) ==
    LET Z == VecAdd[Dot[model.W, x], model.b1]
        a == sigma[Z, func]
        H == a.val
        U == VecAdd[Dot[model.C, H], model.b2]
    IN  IF a.exit
        THEN [exit |-> TRUE, Z |-> Z, H |-> Z, f |-> Z]
        ELSE [exit |-> FALSE, Z |-> Z, H |-> H, f |-> softmax_function[U]]

\* A backprop that assigns three of the four entries and leaves b2 as it was.
backprop_stale_b2(x, y, f, Z, H, model, model_grads, func) ==
    LET dU0 == VecScale[0 - Scale, f]
        dU == [dU0 EXCEPT ![y] = FAdd[dU0[y], Scale]]
        dC == Outer[dU, H]
        delta == Dot[Transpose[model.C], dU]
        dZZ == d_sigma[Z, func].val
        db1 == Multiply[delta, dZZ]
        dW == Outer[db1, x]
    IN  [model_grads EXCEPT !.W = dW, !.C = dC, !.b1 = db1]

\* backprop(x, y, f, Z, H, model, model_grads, func): the gradient bundle it
\* returns, which is model_grads with its four entries assigned.
backprop(x, y, f, Z, H, model, model_grads, func) ==
    LET dU0 == VecScale[0 - Scale, f]
        dU == [dU0 EXCEPT ![y] = FAdd[dU0[y], Scale]]
        db2 == dU
        dC == Outer[dU, H]
        delta == Dot[Transpose[model.C], dU]
        dZZ == d_sigma[Z, func].val
        db1 == Multiply[delta, dZZ]
        dW == Outer[db1, x]
    IN  [model_grads EXCEPT !.W = dW, !.C = dC, !.b1 = db1, !.b2 = db2]

\* ------------------------------------------------------------ inputs
\* The length of a feature vector (mnist['n_input']).
InputDim == 2
\* The number of labels (mnist['n_output']).
Classes == 2
\* params.n_h, the number of hidden units.
HiddenUnits == 2
\* The hyperparameters a run is started with: at most MaxEpochs epochs over at
\* most MaxTrain training samples, MaxDraws sample steps in all, a decay
\* interval of 1..MaxInterval.
MaxEpochs == 4
MaxTrain == 2
MaxDraws == 4
MaxInterval == 2
\* The number of test samples.
MaxTest == 11
\* The random initialisations init_model is given (seeds of np.random.randn).
Seeds == 2

\* A pixel of sample i, in 0..Scale (MNIST's pixels are in [0, 1]).
Pixel(i, j) == ((3 * i + 5 * j + 1) % 5) * (Scale \div 4)
TrainX(i) == [j \in 0..(InputDim - 1) |-> Pixel(i, j)]
TrainY(i) == i % Classes
TestX(i) == [j \in 0..(InputDim - 1) |-> Pixel(i + 2, j + 1)]

\* load_mnist: the data bundle, for n_train training samples and the test
\* labels y_test.
load_mnist(n_train, y_test) ==
    [x_train |-> [i \in 0..(n_train - 1) |-> TrainX(i)],
     y_train |-> [i \in 0..(n_train - 1) |-> TrainY(i)],
     x_test |-> [i \in DOMAIN y_test |-> TestX(i)],
     y_test |-> y_test,
     n_train |-> n_train,
     n_test |-> Size(y_test),
     n_input |-> InputDim,
     n_output |-> Cardinality({y_test[i] : i \in DOMAIN y_test})]

\* One draw of np.random.randn, scaled: a number in -0.5..0.5.
randn(seed, i, j) == (((7 * seed + 5 * i + 3 * j) % 9) - 4) * (Scale \div 8)

\* init_model(mnist, params): the parameter bundle drawn with seed.
init_model(mnist, params, seed) ==
    [W |-> [i \in 0..(params.n_h - 1) |->
              [j \in 0..(mnist.n_input - 1) |-> randn(seed, i, j)]],
     C |-> [i \in 0..(mnist.n_output - 1) |->
              [j \in 0..(params.n_h - 1) |-> randn(seed + 1, j, i)]],
     b1 |-> [i \in 0..(params.n_h - 1) |-> randn(seed + 2, i, 0)],
     b2 |-> [i \in 0..(mnist.n_output - 1) |-> randn(seed + 3, 0, i)]]

\* The value of a name that is not bound yet.
None == [i \in {} |-> 0]

\* ------------------------------------------------------------ state
VARIABLES
    pc,             \* the position in the program
    params,         \* the hyperparameters (argparse.Namespace)
    mnist,          \* the data bundle
    model,          \* the parameter bundle
    model_grads,    \* the gradient bundle
    LR,             \* nn_train: the current learning rate
    epochs,         \* nn_train: the epoch index
    n,              \* the sample index of the inner loop
    total_correct,  \* the correct-count
    n_random,       \* nn_train: the training index drawn
    x, y,           \* the current sample and its label
    Z, H, f,        \* what forward returned
    prediction,     \* np.argmax(f)
    count_correct,  \* nn_test: correct predictions displayed
    count_wrong,    \* nn_test: incorrect predictions displayed
    out,            \* the lines printed
    plotted,        \* the calls of plot_predict
    steps,          \* history: the sample steps completed, in order
    before,         \* history: the parameter bundle the last forward read
    after,          \* history: the parameter bundle the last update wrote
    u, p            \* softmax_function's argument and result

vars == <<pc, params, mnist, model, model_grads, LR, epochs, n, total_correct,
          n_random, x, y, Z, H, f, prediction, count_correct, count_wrong,
          out, plotted, steps, before, after, u, p>>

trainVars == <<LR, epochs, n_random, steps, before, after>>
testVars == <<count_correct, count_wrong, plotted>>
sampleVars == <<x, y, Z, H, f, prediction>>
softmaxVars == <<u, p>>

\* The activation kinds a run may be started with.
Kinds == SupportedKinds \cup {"relu"}

Unbound ==
    /\ model = None /\ model_grads = None
    /\ LR = 0 /\ epochs = 0 /\ n = 0 /\ total_correct = 0
    /\ n_random = 0 - 1
    /\ x = None /\ y = 0 - 1 /\ Z = None /\ H = None /\ f = None
    /\ prediction = 0 - 1
    /\ count_correct = 0 /\ count_wrong = 0
    /\ out = <<>> /\ plotted = <<>> /\ steps = <<>>
    /\ before = None /\ after = None

\* ------------------------------------------------------------ training
\* A run of init_model and nn_train.
InitTrain ==
    /\ pc = "init_model"
    /\ \E e \in 0..MaxEpochs, t \in 1..MaxTrain, i \in 1..MaxInterval, a \in Kinds :
          /\ e * t <= MaxDraws
          /\ params = [lr |-> Scale \div 10, decay |-> Scale \div 2,
                       interval |-> i, n_epochs |-> e, n_h |-> HiddenUnits,
                       sigma |-> a]
          /\ mnist = load_mnist(t, [c \in 0..(Classes - 1) |-> c])
    /\ Unbound
    /\ u = None /\ p = None

\* init_model, and nn_train's LR = params.lr.
InitModel ==
    /\ pc = "init_model"
    /\ \E seed \in 1..Seeds :
          /\ model' = init_model(mnist, params, seed)
          /\ model_grads' = init_model(mnist, params, seed)
    /\ LR' = params.lr
    /\ epochs' = 0
    /\ after' = model'
    /\ pc' = "epoch"
    /\ UNCHANGED <<params, mnist, n, total_correct, n_random, sampleVars, testVars,
                   out, steps, before, softmaxVars>>

\* A schedule that decays at epoch 0 as well.
staircase_from_zero(rate, epoch, interval, decay) ==
    IF epoch % interval = 0 THEN FMul[rate, decay] ELSE rate

\* The learning rate of an epoch, from the one before it.
staircase(rate, epoch, interval, decay) ==
    IF epoch > 0 /\ epoch % interval = 0 THEN FMul[rate, decay] ELSE rate

\* An epoch head that carries the correct-count over from the epoch before.
EpochInit_NoReset ==
    /\ pc = "epoch"
    /\ epochs < params.n_epochs
    /\ LR' = staircase(LR, epochs, params.interval, params.decay)
    /\ n' = 0
    /\ pc' = "sample"
    /\ UNCHANGED <<params, mnist, model, model_grads, epochs, total_correct,
                   n_random, sampleVars, testVars, out, steps, before, after,
                   softmaxVars>>

\* The head of the epoch loop, the learning-rate schedule and the reset of the
\* correct-count.
EpochInit ==
    /\ pc = "epoch"
    /\ epochs < params.n_epochs
    /\ LR' = staircase(LR, epochs, params.interval, params.decay)
    /\ total_correct' = 0
    /\ n' = 0
    /\ pc' = "sample"
    /\ UNCHANGED <<params, mnist, model, model_grads, epochs, n_random, sampleVars,
                   testVars, out, steps, before, after, softmaxVars>>

\* The epoch loop is exhausted: return model.
TrainReturn ==
    /\ pc = "epoch"
    /\ epochs >= params.n_epochs
    /\ pc' = "done"
    /\ UNCHANGED <<params, mnist, model, model_grads, n, total_correct, trainVars,
                   sampleVars, testVars, out, softmaxVars>>

\* randint(0, n_train - 1) and the sample it selects.
Draw ==
    /\ pc = "sample"
    /\ n < mnist.n_train
    /\ \E r \in 0..(mnist.n_train - 1) :
          /\ n_random' = r
          /\ y' = mnist.y_train[r]
          /\ x' = mnist.x_train[r]
    /\ pc' = "forward"
    /\ UNCHANGED <<params, mnist, model, model_grads, LR, epochs, n, total_correct,
                   Z, H, f, prediction, testVars, out, steps, before, after,
                   softmaxVars>>

\* The forward step.
Forward ==
    /\ pc = "forward"
    /\ LET r == forward(x, model, params.sigma)
       IN  /\ ~r.exit
           /\ Z' = r.Z /\ H' = r.H /\ f' = r.f
    /\ before' = model
    /\ pc' = "check"
    /\ UNCHANGED <<params, mnist, model, model_grads, LR, epochs, n, total_correct,
                   n_random, x, y, prediction, testVars, out, steps, after,
                   softmaxVars>>

\* sigma's sys.exit("Unsupported function type!") inside the forward step: the
\* process ends.
ForwardExit ==
    /\ pc = "forward"
    /\ forward(x, model, params.sigma).exit
    /\ pc' = "exit"
    /\ UNCHANGED <<params, mnist, model, model_grads, n, total_correct, trainVars,
                   sampleVars, testVars, out, softmaxVars>>

\* The prediction and the accuracy count.
Check ==
    /\ pc = "check"
    /\ prediction' = Argmax[f]
    /\ total_correct' = IF prediction' = y THEN total_correct + 1 ELSE total_correct
    /\ pc' = "backprop"
    /\ UNCHANGED <<params, mnist, model, model_grads, n, trainVars, x, y, Z, H, f,
                   testVars, out, softmaxVars>>

\* The backpropagation step.
Backprop ==
    /\ pc = "backprop"
    /\ model_grads' = backprop(x, y, f, Z, H, model, model_grads, params.sigma)
    /\ pc' = "update"
    /\ UNCHANGED <<params, mnist, model, n, total_correct, trainVars, sampleVars,
                   testVars, out, softmaxVars>>

\* An update that leaves the output bias b2 out.
update_without_b2(m, rate, g) ==
    [W |-> MatAdd[m.W, MatScale[rate, g.W]],
     C |-> MatAdd[m.C, MatScale[rate, g.C]],
     b1 |-> VecAdd[m.b1, VecScale[rate, g.b1]],
     b2 |-> m.b2]

\* model[k] = model[k] + LR * model_grads[k] for the four tensors.
update(m, rate, g) ==
    [W |-> MatAdd[m.W, MatScale[rate, g.W]],
     C |-> MatAdd[m.C, MatScale[rate, g.C]],
     b1 |-> VecAdd[m.b1, VecScale[rate, g.b1]],
     b2 |-> VecAdd[m.b2, VecScale[rate, g.b2]]]

\* The parameter update, which ends the sample step.
Update ==
    /\ pc = "update"
    /\ model' = update(model, LR, model_grads)
    /\ after' = model'
    /\ steps' = Append(steps, [epoch |-> epochs, idx |-> n_random, lr |-> LR,
                               hit |-> prediction = y])
    /\ n' = n + 1
    /\ pc' = "sample"
    /\ UNCHANGED <<params, mnist, model_grads, LR, epochs, total_correct, n_random,
                   sampleVars, testVars, out, before, softmaxVars>>

\* An epoch end that stops the training once an epoch got every sample right.
EpochEnd_EarlyStop ==
    /\ pc = "sample"
    /\ n >= mnist.n_train
    /\ out' = Append(out, [epoch |-> epochs, correct |-> total_correct,
                           of |-> mnist.n_train])
    /\ epochs' = IF total_correct = mnist.n_train THEN params.n_epochs ELSE epochs + 1
    /\ pc' = "epoch"
    /\ UNCHANGED <<params, mnist, model, model_grads, LR, n, total_correct,
                   n_random, sampleVars, testVars, steps, before, after,
                   softmaxVars>>

\* The sample loop is exhausted: print the epoch and its accuracy.
EpochEnd ==
    /\ pc = "sample"
    /\ n >= mnist.n_train
    /\ out' = Append(out, [epoch |-> epochs, correct |-> total_correct,
                           of |-> mnist.n_train])
    /\ epochs' = epochs + 1
    /\ pc' = "epoch"
    /\ UNCHANGED <<params, mnist, model, model_grads, LR, n, total_correct,
                   n_random, sampleVars, testVars, steps, before, after,
                   softmaxVars>>

NextTrain ==
    \/ InitModel
    \/ EpochInit
    \/ TrainReturn
    \/ Draw
    \/ Forward
    \/ ForwardExit
    \/ Check
    \/ Backprop
    \/ Update
    \/ EpochEnd

Spec == InitTrain /\ [][NextTrain]_vars

\* The program is one thread that always takes its next step.
LiveSpec == InitTrain /\ [][NextTrain]_vars /\ WF_vars(NextTrain)

\* ------------------------------------------------------------ testing
\* nn_test's k, the number of predictions displayed of each outcome.
k == 5

\* The labels a test sample may carry.
TestLabels == {0, Classes - 1}

\* A run of nn_test, after its first four assignments.
InitTest ==
    /\ pc = "test"
    /\ \E a \in Kinds, labels \in [0..(MaxTest - 1) -> TestLabels] :
          /\ params = [lr |-> Scale \div 10, decay |-> Scale \div 2,
                       interval |-> 1, n_epochs |-> 0, n_h |-> HiddenUnits,
                       sigma |-> a]
          /\ mnist = load_mnist(1, labels)
    /\ model = init_model(mnist, params, 1)
    /\ model_grads = model
    /\ LR = 0 /\ epochs = 0 /\ n = 0 /\ total_correct = 0
    /\ n_random = 0 - 1
    /\ x = None /\ y = 0 - 1 /\ Z = None /\ H = None /\ f = None
    /\ prediction = 0 - 1
    /\ count_correct = 0 /\ count_wrong = 0
    /\ out = <<>> /\ plotted = <<>> /\ steps = <<>>
    /\ before = None /\ after = None
    /\ u = None /\ p = None

\* plot_predict(x, y, pred), called for test sample i.
plot_predict(i, xi, yi, pred) == [n |-> i, x |-> xi, y |-> yi, pred |-> pred]

\* The condition under which a correct prediction is displayed.
shown_correct(pred, label, count) == pred = label /\ count < k

\* A display condition that lets one prediction too many through.
shown_wrong_upto(pred, label, count) == pred # label /\ count <= k

\* The condition under which an incorrect prediction is displayed.
shown_wrong(pred, label, count) == pred # label /\ count < k

\* An iteration whose forward step keeps its hidden pre-activation in the
\* parameter bundle's b1.
TestStep_InPlace ==
    /\ pc = "test"
    /\ n < mnist.n_test
    /\ y' = mnist.y_test[n]
    /\ x' = mnist.x_test[n]
    /\ LET r == forward(x', model, params.sigma)
       IN  /\ ~r.exit
           /\ f' = r.f
           /\ model' = [model EXCEPT !.b1 = r.Z]
    /\ prediction' = Argmax[f']
    /\ total_correct' = IF prediction' = y' THEN total_correct + 1 ELSE total_correct
    /\ LET shown == plot_predict(n, x', y', prediction')
           first == shown_correct(prediction', y', count_correct)
           second == shown_wrong(prediction', y', count_wrong)
       IN  /\ count_correct' = IF first THEN count_correct + 1 ELSE count_correct
           /\ count_wrong' = IF second THEN count_wrong + 1 ELSE count_wrong
           /\ plotted' = IF first \/ second THEN Append(plotted, shown) ELSE plotted
    /\ steps' = Append(steps, [epoch |-> 0, idx |-> n, lr |-> LR,
                               hit |-> prediction' = y'])
    /\ n' = n + 1
    /\ UNCHANGED <<pc, params, mnist, model_grads, LR, epochs, n_random,
                   before, after, Z, H, out, softmaxVars>>

\* One iteration of nn_test's loop.
TestStep ==
    /\ pc = "test"
    /\ n < mnist.n_test
    /\ y' = mnist.y_test[n]
    /\ x' = mnist.x_test[n]
    /\ LET r == forward(x', model, params.sigma)
       IN  /\ ~r.exit
           /\ f' = r.f
    /\ prediction' = Argmax[f']
    /\ total_correct' = IF prediction' = y' THEN total_correct + 1 ELSE total_correct
    /\ LET shown == plot_predict(n, x', y', prediction')
           first == shown_correct(prediction', y', count_correct)
           second == shown_wrong(prediction', y', count_wrong)
       IN  /\ count_correct' = IF first THEN count_correct + 1 ELSE count_correct
           /\ count_wrong' = IF second THEN count_wrong + 1 ELSE count_wrong
           /\ plotted' = IF first \/ second THEN Append(plotted, shown) ELSE plotted
    /\ steps' = Append(steps, [epoch |-> 0, idx |-> n, lr |-> LR,
                               hit |-> prediction' = y'])
    /\ n' = n + 1
    /\ UNCHANGED <<pc, params, mnist, model, model_grads, LR, epochs, n_random,
                   before, after, Z, H, out, softmaxVars>>

\* sigma's sys.exit inside nn_test's forward step.
TestExit ==
    /\ pc = "test"
    /\ n < mnist.n_test
    /\ forward(mnist.x_test[n], model, params.sigma).exit
    /\ y' = mnist.y_test[n]
    /\ x' = mnist.x_test[n]
    /\ pc' = "exit"
    /\ UNCHANGED <<params, mnist, model, model_grads, n, total_correct, trainVars,
                   Z, H, f, prediction, testVars, out, softmaxVars>>

\* A report of the number of correct predictions displayed.
TestReport_Shown ==
    /\ pc = "test"
    /\ n >= mnist.n_test
    /\ out' = Append(out, [correct |-> count_correct, of |-> mnist.n_test])
    /\ pc' = "done"
    /\ UNCHANGED <<params, mnist, model, model_grads, n, total_correct, trainVars,
                   sampleVars, testVars, softmaxVars>>

\* The loop is exhausted: print the test accuracy.
TestReport ==
    /\ pc = "test"
    /\ n >= mnist.n_test
    /\ out' = Append(out, [correct |-> total_correct, of |-> mnist.n_test])
    /\ pc' = "done"
    /\ UNCHANGED <<params, mnist, model, model_grads, n, total_correct, trainVars,
                   sampleVars, testVars, softmaxVars>>

NextTest ==
    \/ TestStep
    \/ TestExit
    \/ TestReport

SpecTest == InitTest /\ [][NextTest]_vars

\* ------------------------------------------------------------ softmax
\* The finite numbers softmax_function is called with.
SoftmaxInputs ==
    {0 - MaxFloat, 0 - (9 * Scale), 0 - (5 * Scale), 0 - Scale, 0 - 1, 0, 1,
     Scale \div 2, Scale, 3 * Scale, 5 * Scale, MaxFloat}

InitSoftmax ==
    /\ pc = "softmax"
    /\ params = [sigma |-> "sigmoid"]
    /\ mnist = None
    /\ Unbound
    /\ u \in [0..(Classes - 1) -> SoftmaxInputs]
    /\ p = None

\* One call of softmax_function.
SoftmaxCall ==
    /\ pc = "softmax"
    /\ p' = softmax_function[u]
    /\ pc' = "done"
    /\ UNCHANGED <<params, mnist, model, model_grads, n, total_correct, trainVars,
                   sampleVars, testVars, out, u>>

NextSoftmax == SoftmaxCall

SpecSoftmax == InitSoftmax /\ [][NextSoftmax]_vars

\* ------------------------------------------------------------ claims
NTrain == mnist.n_train
NTest == mnist.n_test
InSampleStep == pc \in {"sample", "forward", "check", "backprop", "update"}

\* rate multiplied by decay, times times.
RECURSIVE DecayTimes(_, _, _)
DecayTimes(rate, decay, times) ==
    IF times = 0 THEN rate ELSE FMul[DecayTimes(rate, decay, times - 1), decay]

\* C1: with a decay interval >= 1, the learning rate of every sample step of
\* epoch e is the initial rate multiplied by the decay factor floor(e / interval)
\* times: none at epoch 0, one more at each later epoch the interval divides.
C1_StaircaseSchedule ==
    /\ \A i \in 1..Len(steps) :
          steps[i].lr = DecayTimes(params.lr, params.decay,
                                   steps[i].epoch \div params.interval)
    /\ InSampleStep =>
          LR = DecayTimes(params.lr, params.decay, epochs \div params.interval)

\* A step of epoch 3 under interval 1, with the rate decayed three times over.
C1_Witness ==
    /\ params.interval = 1
    /\ \E i \in 1..Len(steps) :
          /\ steps[i].epoch = 3
          /\ steps[i].lr = FMul[FMul[FMul[params.lr, params.decay], params.decay],
                                params.decay]
          /\ steps[i].lr < FMul[params.lr, params.decay]
          /\ steps[1].lr = params.lr

\* C3 (as claimed): a run with an unsupported activation kind is rejected at
\* model-build time, so it draws no training sample and enters no forward pass.
C3_RejectedAtBuild ==
    params.sigma \notin SupportedKinds => (n_random = 0 - 1 /\ pc # "forward")

\* The number of completed steps of epoch e.
StepsIn(e) == Cardinality({i \in 1..Len(steps) : steps[i].epoch = e})

\* C4: with a supported kind nn_train ends, in done, and only there; at done it
\* has run n_epochs epochs of n_train sample steps each, every step on a drawn
\* index in 0..n_train-1, n_epochs * n_train parameter updates in all.
C4_FixedEpochCount ==
    /\ [](pc = "done" =>
            /\ epochs = params.n_epochs
            /\ Len(out) = params.n_epochs
            /\ Len(steps) = params.n_epochs * NTrain
            /\ \A e \in 0..(params.n_epochs - 1) : StepsIn(e) = NTrain
            /\ \A i \in 1..Len(steps) : steps[i].idx \in 0..(NTrain - 1))
    /\ [](pc = "exit" => params.sigma \notin SupportedKinds)
    /\ (params.sigma \in SupportedKinds) ~> (pc = "done")

\* Two epochs of two steps are done, one index drawn twice in a row.
C4_Witness ==
    /\ pc = "done"
    /\ params.n_epochs = 2 /\ NTrain = 2
    /\ Len(steps) = 4
    /\ steps[1].idx = steps[2].idx
    /\ steps[3].idx # steps[4].idx

\* A gradient bundle that no backprop call returned.
NoGrads == [W |-> None, C |-> None, b1 |-> None, b2 |-> None]

\* C6: a backprop call leaves in the gradient bundle what it computes from its
\* inputs alone, whatever the bundle held before (the same as from a bundle
\* holding nothing), and it leaves the parameter bundle as it is.
C6_BackpropOverwrites ==
    [][pc = "backprop" =>
          /\ model_grads' = backprop(x, y, f, Z, H, model, NoGrads, params.sigma)
          /\ model' = model]_vars

\* A backprop call is due on a bundle that holds an earlier step's gradient,
\* which is not the gradient of this step.
C6_Witness ==
    /\ pc = "backprop"
    /\ Len(steps) >= 1
    /\ model_grads # backprop(x, y, f, Z, H, model, NoGrads, params.sigma)
    /\ model_grads # NoGrads

\* C7 (as claimed): for every finite u the entries of softmax_function(u) are
\* in [0, 1] and sum to 1, within one unit per entry.
C7_SoftmaxDistribution ==
    (pc = "done" /\ \A i \in DOMAIN u : IsFinite(u[i])) =>
        /\ \A i \in DOMAIN p : p[i] >= 0 /\ p[i] <= Scale
        /\ Abs[SumTo[p, Size(p)] - Scale] <= Size(p)

\* The sample of a completed step, and the step recomputed from the bundle its
\* forward pass read.
StepX(s) == mnist.x_train[s.idx]
StepY(s) == mnist.y_train[s.idx]
StepForward(s, m) == forward(StepX(s), m, params.sigma)
StepResult(s, m) ==
    LET r == StepForward(s, m)
        g == backprop(StepX(s), StepY(s), r.f, r.Z, r.H, m, NoGrads, params.sigma)
    IN  [W |-> MatAdd[m.W, MatScale[s.lr, g.W]],
         C |-> MatAdd[m.C, MatScale[s.lr, g.C]],
         b1 |-> VecAdd[m.b1, VecScale[s.lr, g.b1]],
         b2 |-> VecAdd[m.b2, VecScale[s.lr, g.b2]]]

\* C8: a sample step reads, in its forward pass, the bundle the step before it
\* wrote (also over an epoch boundary); nothing changes the bundle between the
\* forward pass and the update; the comparison is on the arg-max of that forward
\* pass; and the update adds rate * gradient of that forward and backward pass
\* to all four tensors.
C8_StepOrder ==
    /\ pc \in {"check", "backprop", "update"} => (before = after /\ model = before)
    /\ pc \in {"backprop", "update"} =>
          prediction = Argmax[forward(x, before, params.sigma).f]
    /\ (pc \in {"sample", "epoch", "done"} /\ Len(steps) > 0) =>
          LET s == steps[Len(steps)]
          IN  /\ model = StepResult(s, before)
              /\ after = model
              /\ s.hit = (Argmax[StepForward(s, before).f] = StepY(s))

\* The first step of epoch 1 has made its forward pass on the bundle the last
\* step of epoch 0 wrote, which that step had changed.
C8_Witness ==
    /\ pc = "check"
    /\ epochs = 1 /\ n = 0
    /\ Len(steps) = NTrain
    /\ before = after
    /\ \A seed \in 1..Seeds : before # init_model(mnist, params, seed)

\* The number of steps of epoch e whose prediction was the label.
HitsIn(e) == Cardinality({i \in 1..Len(steps) : steps[i].epoch = e /\ steps[i].hit})

\* C9: the correct-count is the number of this epoch's steps so far whose
\* prediction was the label, so every line printed at an epoch's end reports
\* that epoch's hits alone, between 0 and n_train, over n_train.
C9_EpochCount ==
    /\ pc = "sample" => (total_correct = HitsIn(epochs) /\ total_correct <= n)
    /\ pc \in {"backprop", "update"} =>
          total_correct = HitsIn(epochs) + (IF prediction = y THEN 1 ELSE 0)
    /\ \A j \in 1..Len(out) :
          /\ out[j].epoch = j - 1
          /\ out[j].correct = HitsIn(j - 1)
          /\ out[j].correct >= 0 /\ out[j].correct <= NTrain
          /\ out[j].of = NTrain

\* Two epochs are reported, the second with fewer hits than the first.
C9_Witness ==
    /\ Len(out) >= 2
    /\ out[1].correct = NTrain
    /\ out[2].correct < out[1].correct
    /\ NTrain = 2

\* The predictions displayed as correct (b) or as incorrect, and the steps whose
\* outcome was correct (b) or incorrect, in order; the first k of a sequence.
Shown(b) == SelectSeq(plotted, LAMBDA r : (r.pred = r.y) = b)
Outcomes(b) == SelectSeq(steps, LAMBDA s : s.hit = b)
FirstK(s) == SubSeq(s, 1, IF Len(s) < k THEN Len(s) ELSE k)

\* C2: whatever the outcomes of the test samples so far, the samples displayed
\* as correct are the first min(k, number correct) correctly classified indices
\* in encounter order, each with its sample, label and prediction, and likewise
\* the incorrect ones; no sample is displayed twice and neither count exceeds k.
C2_FirstKDisplayed ==
    pc \in {"test", "done"} =>
        /\ count_correct = Len(Shown(TRUE)) /\ count_correct <= k
        /\ count_wrong = Len(Shown(FALSE)) /\ count_wrong <= k
        /\ \A b \in BOOLEAN :
              /\ Len(Shown(b)) = Len(FirstK(Outcomes(b)))
              /\ \A j \in 1..Len(Shown(b)) :
                    LET r == Shown(b)[j]
                    IN  /\ r.n = FirstK(Outcomes(b))[j].idx
                        /\ r.x = mnist.x_test[r.n]
                        /\ r.y = mnist.y_test[r.n]
        /\ \A i, j \in 1..Len(plotted) : i < j => plotted[i].n < plotted[j].n

\* The test is over with k predictions of each outcome displayed and a sixth
\* incorrect one, met after the fifth, left out.
C2_Witness ==
    /\ pc = "done"
    /\ count_correct = k /\ count_wrong = k
    /\ Len(Outcomes(FALSE)) = k + 1
    /\ Len(plotted) = 2 * k
    /\ ~steps[Len(steps)].hit

\* The test indices whose arg-max prediction is the label.
CorrectIndices ==
    {i \in 0..(NTest - 1) :
        Argmax[forward(mnist.x_test[i], model, params.sigma).f] = mnist.y_test[i]}

\* C5: the test visits the indices 0, 1, ... in this order, once each, all of
\* them when it is done; the count it then holds is the number of indices whose
\* arg-max prediction is the label, and the accuracy it prints is that count
\* over n_test, however many predictions were displayed.
C5_TestAccuracy ==
    /\ pc \in {"test", "done"} =>
          /\ Len(steps) = n
          /\ \A i \in 1..Len(steps) : steps[i].idx = i - 1
    /\ pc = "done" =>
          /\ Len(steps) = NTest
          /\ total_correct = Cardinality(CorrectIndices)
          /\ out = <<[correct |-> total_correct, of |-> NTest]>>

\* The test is over with more correct predictions than were displayed, and
\* some incorrect ones.
C5_Witness ==
    /\ pc = "done"
    /\ Len(steps) = NTest
    /\ total_correct > count_correct
    /\ total_correct < NTest
    /\ out[1].correct = total_correct

\* C10: no step of nn_test, whose only use of the bundle is the forward pass,
\* changes the parameter bundle, the dataset or the sample it is given, so the
\* bundle after the test is the bundle before it; and the forward pass on the
\* same sample, bundle and kind returns the same result: two displayed samples
\* with equal pixels have equal predictions, and the last distribution is the
\* one computed again from the last sample.
C10_ForwardPure ==
    pc \in {"test", "done"} =>
        /\ model = init_model(mnist, params, 1)
        /\ mnist = load_mnist(1, mnist.y_test)
        /\ n > 0 => x = mnist.x_test[n - 1]
        /\ \A i, j \in 1..Len(plotted) :
              plotted[i].x = plotted[j].x => plotted[i].pred = plotted[j].pred
        /\ pc = "done" => f = forward(x, model, params.sigma).f

\* The test is over, some predictions right and some wrong, and the bundle is
\* the one the test was given.
C10_Witness ==
    /\ pc = "done"
    /\ n = NTest
    /\ total_correct > 0 /\ total_correct < NTest
    /\ model = init_model(mnist, params, 1)
    /\ \E i, j \in 1..Len(plotted) : i < j /\ plotted[i].x = plotted[j].x

====
